---- MODULE Spec2Model ----
(***************************************************************************)
(* A model of the LULC classification script (src/classification.js).      *)
(* The script is a straight-line program of Earth Engine requests; each    *)
(* top-level statement that builds a value is one action.  A raster is a   *)
(* function from pixel locations to pixels, a pixel is a record of a mask  *)
(* flag and band values, and real numbers are exact fractions num/den.     *)
(***************************************************************************)
EXTENDS Integers, Sequences, FiniteSets, TLC

VARIABLES pc, image, maskedImage, collection, s2, classified, areaImage,
          area, classAreaList, trainingData, withRandom, trainingSet,
          testingSet, classifier, confusionMatrix

vars == <<pc, image, maskedImage, collection, s2, classified, areaImage,
          area, classAreaList, trainingData, withRandom, trainingSet,
          testingSet, classifier, confusionMatrix>>

(***************************************************************************)
(* Bounds of the model.                                                    *)
(***************************************************************************)
\* QA60 values range over 0 .. 2^QABits - 1
QABits == 15
\* observations (images that pass the metadata filters) per run
NImg == 2
\* pixel locations inside the AOI rectangle; one more location lies outside
NAoi == 2
\* longest (label, area) sequence handed to the reducer
MaxLen == 3
\* shards a sequence is partitioned into
NShards == 2
\* samples produced by sampleRegions
NSamples == 2

(***************************************************************************)
(* Exact arithmetic: a number is a fraction in lowest terms, den > 0.      *)
(***************************************************************************)
Abs(n) == IF n < 0 THEN -n ELSE n

RECURSIVE Gcd(_, _)
Gcd(a, b) == IF b = 0 THEN a ELSE Gcd(b, a % b)

Rat(n, d) ==
    LET g == Gcd(Abs(n), d)
    IN  [num |-> n \div g, den |-> d \div g]

Num(n) == [num |-> n, den |-> 1]

RatLt(a, b) == a.num * b.den < b.num * a.den

RatLeq(a, b) == a.num * b.den <= b.num * a.den

RatAdd(a, b) == Rat(a.num * b.den + b.num * a.den, a.den * b.den)

\* ee.Number.divide / ee.Image.divide by an integer constant
divide(a, k) == Rat(a.num, a.den * k)

(***************************************************************************)
(* Bit operations on non-negative integers.                                *)
(***************************************************************************)
Pow2(n) == 2 ^ n

\* 1 << n
leftShift(n) == Pow2(n)

RECURSIVE bitwiseAnd(_, _)
bitwiseAnd(a, b) ==
    IF a = 0 \/ b = 0 THEN 0
    ELSE (a % 2) * (b % 2) + 2 * bitwiseAnd(a \div 2, b \div 2)

(***************************************************************************)
(* STEP 2: maskS2clouds.                                                   *)
(***************************************************************************)
BandNames == {"B4", "QA60"}

cloudBitMask == leftShift(10)

cirrusBitMask_m == leftShift(10)

cirrusBitMask == leftShift(11)

\* image.select('QA60'): the raw integer of the QA band
selectQA60(img) == img.bands["QA60"].num

\* qa.bitwiseAnd(cloudBitMask).eq(0).and(qa.bitwiseAnd(cirrusBitMask).eq(0))
cloudMask(qa) ==
    /\ bitwiseAnd(qa, cloudBitMask) = 0
    /\ bitwiseAnd(qa, cirrusBitMask) = 0

updateMask_m(img, mask) == img

\* image.updateMask(mask): the band values stay, the pixel's mask is and-ed
updateMask(img, mask) == [img EXCEPT !.mask = img.mask /\ mask]

divideImage_m(img, k) == img

\* image.divide(10000): every band, QA60 included, keeps its mask
divideImage(img, k) ==
    [img EXCEPT !.bands = [b \in BandNames |-> divide(img.bands[b], k)]]

scaleFactor_m == 10 * 10 * 10

scaleFactor == 10000

maskS2clouds(img) ==
    LET qa   == selectQA60(img)
        mask == cloudMask(qa)
    IN  divideImage(updateMask(img, mask), scaleFactor)

\* a pixel as the collection delivers it: valid, integer band values
RawPixel(qa, b4) ==
    [mask |-> TRUE, bands |-> [b \in BandNames |->
                                 IF b = "QA60" THEN Num(qa) ELSE Num(b4)]]

NoImage == [mask |-> FALSE, bands |-> [b \in BandNames |-> Num(0)]]

\* raw reflectance samples of a UInt16 band (scaled by 10000)
RawValues == {0, 2500, 10000, 10001, 65535}

QAValues == 0 .. (Pow2(QABits) - 1)

InitMask ==
    /\ pc = "maskS2clouds"
    /\ \E qa \in QAValues, b4 \in RawValues : image = RawPixel(qa, b4)
    /\ maskedImage = NoImage
    /\ collection = <<>> /\ s2 = <<>> /\ classified = <<>>
    /\ areaImage = <<>> /\ area = [groups |-> <<>>] /\ classAreaList = <<>>
    /\ trainingData = <<>> /\ withRandom = <<>>
    /\ trainingSet = <<>> /\ testingSet = <<>>
    /\ classifier = [trainedOn |-> {}, assessedOn |-> {}]
    /\ confusionMatrix = [trainedOn |-> {}, assessedOn |-> {}]

MaskS2clouds ==
    /\ pc = "maskS2clouds"
    /\ maskedImage' = maskS2clouds(image)
    /\ pc' = "masked"
    /\ UNCHANGED <<image, collection, s2, classified, areaImage, area,
                   classAreaList, trainingData, withRandom, trainingSet,
                   testingSet, classifier, confusionMatrix>>

NextMask == MaskS2clouds

SpecMask == InitMask /\ [][NextMask]_vars

(***************************************************************************)
(* STEP 1 and STEP 2: the AOI and the cloud-free composite s2.             *)
(* Locations 1 .. NAoi lie inside the AOI rectangle, location NAoi + 1     *)
(* lies outside it.  The collection holds the images that passed           *)
(* filterBounds, filterDate and the CLOUDY_PIXEL_PERCENTAGE filter.        *)
(***************************************************************************)
Locs == 1 .. (NAoi + 1)

aoi == 1 .. NAoi

\* observations a location inside the AOI can have: clear, cloud, cirrus
ObsValues == {RawPixel(0, 2500), RawPixel(1024, 10001), RawPixel(2048, 0)}

\* the location outside the AOI is always observed clear
ObsOutside == {RawPixel(0, 2500)}

Rasters == {r \in [Locs -> ObsValues \cup ObsOutside] :
               \A l \in Locs \ aoi : r[l] \in ObsOutside}

RECURSIVE SeqsUpTo(_, _)
SeqsUpTo(S, n) ==
    IF n = 0 THEN {<<>>}
    ELSE LET shorter == SeqsUpTo(S, n - 1)
         IN  shorter \cup {Append(q, x) : q \in {t \in shorter : Len(t) = n - 1},
                                          x \in S}

\* collection.map(maskS2clouds)
mapMaskS2clouds(coll) ==
    [i \in 1 .. Len(coll) |-> [l \in Locs |-> maskS2clouds(coll[i][l])]]

RECURSIVE SortRats(_)
SortRats(q) ==
    IF q = <<>> THEN <<>>
    ELSE LET i == CHOOSE j \in 1 .. Len(q) :
                      \A k \in 1 .. Len(q) : RatLeq(q[j], q[k])
             rest == [k \in 1 .. (Len(q) - 1) |-> IF k < i THEN q[k] ELSE q[k + 1]]
         IN  <<q[i]>> \o SortRats(rest)

\* ee.Reducer.median: the middle value, or the mean of the two middle ones
medianOf(q) ==
    LET sorted == SortRats(q)
        n      == Len(q)
    IN  IF n % 2 = 1 THEN sorted[(n + 1) \div 2]
        ELSE divide(RatAdd(sorted[n \div 2], sorted[n \div 2 + 1]), 2)

RECURSIVE ValidObs(_, _, _)
ValidObs(coll, l, b) ==
    IF coll = <<>> THEN <<>>
    ELSE LET rest == ValidObs(Tail(coll), l, b)
         IN  IF Head(coll)[l].mask THEN <<Head(coll)[l].bands[b]>> \o rest
             ELSE rest

\* collection.median(): per pixel, over the observations that are not masked
median(coll) ==
    [l \in Locs |->
        IF \E i \in 1 .. Len(coll) : coll[i][l].mask
        THEN [mask |-> TRUE,
              bands |-> [b \in BandNames |-> medianOf(ValidObs(coll, l, b))]]
        ELSE NoImage]

\* image.clip(geometry): pixels outside the geometry are masked
clip(img, geometry) ==
    [l \in Locs |-> [img[l] EXCEPT !.mask = img[l].mask /\ l \in geometry]]

computeS2(coll) == clip(median(mapMaskS2clouds(coll)), aoi)

(***************************************************************************)
(* STEP 6: classification.  The classifier is opaque: every valid pixel    *)
(* gets one of the four class codes, a masked pixel stays masked.          *)
(***************************************************************************)
ClassLabels == 0 .. 3

NoLabel == [mask |-> FALSE, class |-> 0]

Classifications(img) ==
    {c \in [Locs -> {NoLabel} \cup [mask : {TRUE}, class : ClassLabels]] :
        \A l \in Locs : c[l].mask = img[l].mask}

(***************************************************************************)
(* STEP 8: area of each class.                                             *)
(***************************************************************************)
scale == 10

\* ee.Image.pixelArea() at the reduction scale, in square meters
pixelArea == scale * scale

\* ee.Image.pixelArea().addBands(classified): band 0 area, band 1 class
makeAreaImage(cls) ==
    [l \in Locs |-> [area |-> pixelArea, class |-> cls[l].class,
                     mask |-> cls[l].mask, inAoi |-> l \in aoi]]

regionInputs_m(img) == img

\* the pixels reduceRegion feeds to the reducer: inside the geometry and
\* valid in every band
regionInputs(img) == SelectSeq(img, LAMBDA p : p.mask /\ p.inAoi)

addToGroup_m(acc, p) ==
    IF p.class \in DOMAIN acc
    THEN [acc EXCEPT ![p.class] = p.area]
    ELSE acc @@ (p.class :> p.area)

\* ee.Reducer.sum().group: one running sum per value of the group field
addToGroup(acc, p) ==
    IF p.class \in DOMAIN acc
    THEN [acc EXCEPT ![p.class] = @ + p.area]
    ELSE acc @@ (p.class :> p.area)

RECURSIVE groupSums(_, _)
groupSums(px, acc) ==
    IF px = <<>> THEN acc
    ELSE groupSums(Tail(px), addToGroup(acc, Head(px)))

groupKeys_m(acc) == {k \in DOMAIN acc : acc[k] # 0}

\* a group is materialized for every key seen
groupKeys(acc) == DOMAIN acc

RECURSIVE groupList(_, _)
groupList(acc, keys) ==
    IF keys = {} THEN <<>>
    ELSE LET k == CHOOSE x \in keys : \A y \in keys : x <= y
         IN  <<[class |-> k, sum |-> acc[k]]>> \o groupList(acc, keys \ {k})

\* areaImage.reduceRegion({reducer: sum().group(...), geometry: aoi, ...})
reduceRegion(img) ==
    LET acc == groupSums(regionInputs(img), <<>>)
    IN  [groups |-> groupList(acc, groupKeys(acc))]

sqMetersPerSqKm == 1000000

numberDivide_m(a, k) == Num(a.num \div (a.den * k))

\* ee.Number(areaSqMeters).divide(1e6)
numberDivide(a, k) == divide(a, k)

\* classAreas.map(function(item) {...})
mapClassAreas(groups) ==
    [i \in 1 .. Len(groups) |->
        [class |-> groups[i].class,
         area_sq_km |-> numberDivide(Num(groups[i].sum), sqMetersPerSqKm)]]

(***************************************************************************)
(* STEP 5 and STEP 7: train/test split, training, accuracy assessment.     *)
(***************************************************************************)
split == Rat(7, 10)

\* values of the 'random' column, in [0, 1)
RandomValues == {Rat(0, 1), Rat(69, 100), Rat(7, 10), Rat(99, 100)}

\* ee.Filter.lt
lt(a, b) == RatLt(a, b)

gte_m(a, b) == RatLt(b, a)

\* ee.Filter.gte
gte(a, b) == RatLeq(b, a)

Ids(samples) == {samples[i].id : i \in 1 .. Len(samples)}

(***************************************************************************)
(* The script, statement by statement.                                     *)
(***************************************************************************)
NoArea == [groups |-> <<>>]

NoModel == [trainedOn |-> {}, assessedOn |-> {}]

InitPipeline ==
    /\ pc = "s2"
    /\ collection \in SeqsUpTo(Rasters, NImg) \ {<<>>}
    /\ image = NoImage /\ maskedImage = NoImage
    /\ s2 = <<>> /\ classified = <<>>
    /\ areaImage = <<>> /\ area = NoArea /\ classAreaList = <<>>
    /\ trainingData = <<>> /\ withRandom = <<>>
    /\ trainingSet = <<>> /\ testingSet = <<>>
    /\ classifier = NoModel /\ confusionMatrix = NoModel

\* var s2 = ee.ImageCollection(...)....map(maskS2clouds).median().clip(aoi)
ComputeS2 ==
    /\ pc = "s2"
    /\ s2' = computeS2(collection)
    /\ pc' = "classified"
    /\ UNCHANGED <<image, maskedImage, collection, classified, areaImage,
                   area, classAreaList, trainingData, withRandom,
                   trainingSet, testingSet, classifier, confusionMatrix>>

\* var classified = imageWithIndices.select(bands).classify(classifier)
Classify ==
    /\ pc = "classified"
    /\ classified' \in Classifications(s2)
    /\ pc' = "areaImage"
    /\ UNCHANGED <<image, maskedImage, collection, s2, areaImage, area,
                   classAreaList, trainingData, withRandom, trainingSet,
                   testingSet, classifier, confusionMatrix>>

\* var areaImage = ee.Image.pixelArea().addBands(classified)
AreaImage ==
    /\ pc = "areaImage"
    /\ areaImage' = makeAreaImage(classified)
    /\ pc' = "area"
    /\ UNCHANGED <<image, maskedImage, collection, s2, classified, area,
                   classAreaList, trainingData, withRandom, trainingSet,
                   testingSet, classifier, confusionMatrix>>

\* var area = areaImage.reduceRegion({...})
ReduceRegion ==
    /\ pc = "area"
    /\ area' = reduceRegion(areaImage)
    /\ pc' = "classAreaList"
    /\ UNCHANGED <<image, maskedImage, collection, s2, classified, areaImage,
                   classAreaList, trainingData, withRandom, trainingSet,
                   testingSet, classifier, confusionMatrix>>

\* var classAreas = ee.List(area.get('groups')); var classAreaList = ...
ClassAreaList ==
    /\ pc = "classAreaList"
    /\ classAreaList' = mapClassAreas(area.groups)
    /\ pc' = "done"
    /\ UNCHANGED <<image, maskedImage, collection, s2, classified, areaImage,
                   area, trainingData, withRandom, trainingSet, testingSet,
                   classifier, confusionMatrix>>

Next ==
    \/ ComputeS2
    \/ Classify
    \/ AreaImage
    \/ ReduceRegion
    \/ ClassAreaList

Spec == InitPipeline /\ [][Next]_vars

(***************************************************************************)
(* The area aggregation on its own: STEP 8 applied to any finite sequence  *)
(* of valid (label, area) pairs.                                           *)
(***************************************************************************)
AreaValues == {0, 500000, 2000000}

Pair(label, a) == [area |-> a, class |-> label, mask |-> TRUE, inAoi |-> TRUE]

ValidPairs == {Pair(l, a) : l \in ClassLabels, a \in AreaValues}

InitAgg ==
    /\ pc = "area"
    /\ areaImage \in SeqsUpTo(ValidPairs, MaxLen)
    /\ image = NoImage /\ maskedImage = NoImage
    /\ collection = <<>> /\ s2 = <<>> /\ classified = <<>>
    /\ area = NoArea /\ classAreaList = <<>>
    /\ trainingData = <<>> /\ withRandom = <<>>
    /\ trainingSet = <<>> /\ testingSet = <<>>
    /\ classifier = NoModel /\ confusionMatrix = NoModel

NextAgg ==
    \/ ReduceRegion
    \/ ClassAreaList

SpecAgg == InitAgg /\ [][NextAgg]_vars

(***************************************************************************)
(* The same reduction handed pairs that break the upstream contract.       *)
(***************************************************************************)
AnyLabels == {-1, 0, 3, 4}

AnyAreas == {-500000, 500000}

AnyPairs == {Pair(l, a) : l \in AnyLabels, a \in AnyAreas}

InitContract ==
    /\ pc = "area"
    /\ areaImage \in SeqsUpTo(AnyPairs, MaxLen)
    /\ image = NoImage /\ maskedImage = NoImage
    /\ collection = <<>> /\ s2 = <<>> /\ classified = <<>>
    /\ area = NoArea /\ classAreaList = <<>>
    /\ trainingData = <<>> /\ withRandom = <<>>
    /\ trainingSet = <<>> /\ testingSet = <<>>
    /\ classifier = NoModel /\ confusionMatrix = NoModel

SpecContract == InitContract /\ [][NextAgg]_vars

(***************************************************************************)
(* The train/test split on its own: STEP 5 and STEP 7 applied to the       *)
(* samples of sampleRegions.                                               *)
(***************************************************************************)
Samples == {q \in [1 .. NSamples -> [id : 1 .. NSamples, class : ClassLabels]] :
               \A i \in 1 .. NSamples : q[i].id = i}

InitSplit ==
    /\ pc = "withRandom"
    /\ trainingData \in Samples
    /\ image = NoImage /\ maskedImage = NoImage
    /\ collection = <<>> /\ s2 = <<>> /\ classified = <<>>
    /\ areaImage = <<>> /\ area = NoArea /\ classAreaList = <<>>
    /\ withRandom = <<>> /\ trainingSet = <<>> /\ testingSet = <<>>
    /\ classifier = NoModel /\ confusionMatrix = NoModel

\* var withRandom = trainingData.randomColumn('random')
RandomColumn ==
    /\ pc = "withRandom"
    /\ \E r \in [1 .. Len(trainingData) -> RandomValues] :
           withRandom' = [i \in 1 .. Len(trainingData) |->
                             [id |-> trainingData[i].id,
                              class |-> trainingData[i].class,
                              random |-> r[i]]]
    /\ pc' = "trainingSet"
    /\ UNCHANGED <<image, maskedImage, collection, s2, classified, areaImage,
                   area, classAreaList, trainingData, trainingSet,
                   testingSet, classifier, confusionMatrix>>

\* var trainingSet = withRandom.filter(ee.Filter.lt('random', split))
TrainingSet ==
    /\ pc = "trainingSet"
    /\ trainingSet' = SelectSeq(withRandom, LAMBDA x : lt(x.random, split))
    /\ pc' = "testingSet"
    /\ UNCHANGED <<image, maskedImage, collection, s2, classified, areaImage,
                   area, classAreaList, trainingData, withRandom,
                   testingSet, classifier, confusionMatrix>>

\* var testingSet = withRandom.filter(ee.Filter.gte('random', split))
TestingSet ==
    /\ pc = "testingSet"
    /\ testingSet' = SelectSeq(withRandom, LAMBDA x : gte(x.random, split))
    /\ pc' = "classifier"
    /\ UNCHANGED <<image, maskedImage, collection, s2, classified, areaImage,
                   area, classAreaList, trainingData, withRandom,
                   trainingSet, classifier, confusionMatrix>>

\* var classifier = ee.Classifier.smileRandomForest(100).train({features:
\* trainingSet, ...})
Train ==
    /\ pc = "classifier"
    /\ classifier' = [classifier EXCEPT !.trainedOn = Ids(trainingSet)]
    /\ pc' = "confusionMatrix"
    /\ UNCHANGED <<image, maskedImage, collection, s2, classified, areaImage,
                   area, classAreaList, trainingData, withRandom,
                   trainingSet, testingSet, confusionMatrix>>

\* var confusionMatrix = testingSet.classify(classifier).errorMatrix(...)
ErrorMatrix ==
    /\ pc = "confusionMatrix"
    /\ confusionMatrix' = [confusionMatrix EXCEPT !.assessedOn = Ids(testingSet)]
    /\ pc' = "assessed"
    /\ UNCHANGED <<image, maskedImage, collection, s2, classified, areaImage,
                   area, classAreaList, trainingData, withRandom,
                   trainingSet, testingSet, classifier>>

NextSplit ==
    \/ RandomColumn
    \/ TrainingSet
    \/ TestingSet
    \/ Train
    \/ ErrorMatrix

SpecSplit == InitSplit /\ [][NextSplit]_vars

(***************************************************************************)
(* Properties of maskS2clouds (checked under SpecMask).                    *)
(***************************************************************************)
Bit(q, i) == (q \div Pow2(i)) % 2

FlipBit(q, i) == IF Bit(q, i) = 0 THEN q + Pow2(i) ELSE q - Pow2(i)

ReflectanceBands == BandNames \ {"QA60"}

\* C1: the mask of a pixel is true iff bits 10 and 11 of its QA60 value are
\* both 0, and flipping any other bit of the QA60 value leaves the mask as
\* it is.
C1_MaskIffBits10And11Clear ==
    pc = "masked" =>
        LET qa == selectQA60(image)
        IN  /\ maskedImage.mask <=> (Bit(qa, 10) = 0 /\ Bit(qa, 11) = 0)
            /\ \A k \in (0 .. QABits - 1) \ {10, 11} :
                   cloudMask(FlipBit(qa, k)) = maskedImage.mask

C1_Witness ==
    /\ pc = "masked"
    /\ selectQA60(image) = 2048 + 512 + 1
    /\ ~maskedImage.mask

\* C2: a pixel whose mask is false comes out excluded (its mask flag is
\* down, so it equals no retained reflectance vector, the all-zero one
\* included); a pixel whose mask is true comes out retained with every band
\* equal to the raw band value divided by 10000.
C2_ExcludedOrNormalized ==
    pc = "masked" =>
        IF cloudMask(selectQA60(image))
        THEN /\ maskedImage.mask
             /\ \A b \in BandNames :
                    /\ maskedImage.bands[b].den > 0
                    /\ maskedImage.bands[b].num * 10000
                           = image.bands[b].num * maskedImage.bands[b].den
        ELSE /\ ~maskedImage.mask
             /\ \A v \in RawValues :
                    maskedImage # maskS2clouds(RawPixel(0, v))
             /\ maskedImage # [mask |-> TRUE,
                               bands |-> [b \in BandNames |-> Num(0)]]

\* a retained pixel whose raw reflectance is 0 comes out as 0, not excluded
C2_Witness ==
    /\ pc = "masked"
    /\ image.bands["B4"] = Num(0)
    /\ selectQA60(image) = 1
    /\ maskedImage.mask
    /\ maskedImage.bands["B4"] = Num(0)

C2_WitnessExcluded ==
    /\ pc = "masked"
    /\ selectQA60(image) = 1024
    /\ ~maskedImage.mask

\* C9 as stated: every reflectance band of a retained pixel lies in [0,1].
C9_NormalizedInUnitInterval ==
    (pc = "masked" /\ maskedImage.mask) =>
        \A b \in ReflectanceBands :
            /\ RatLeq(Num(0), maskedImage.bands[b])
            /\ RatLeq(maskedImage.bands[b], Num(1))

\* C9 (amended): every reflectance band of a retained pixel is non-negative
\* and is at most 1 exactly when the raw value is at most 10000.
C9_NormalizedAtMostOneIffRawAtMostScale ==
    (pc = "masked" /\ maskedImage.mask) =>
        \A b \in ReflectanceBands :
            /\ RatLeq(Num(0), maskedImage.bands[b])
            /\ RatLeq(maskedImage.bands[b], Num(1))
                   <=> image.bands[b].num <= 10000

C9_Witness ==
    /\ pc = "masked"
    /\ maskedImage.mask
    /\ image.bands["B4"] = Num(10001)
    /\ RatLt(Num(1), maskedImage.bands["B4"])

(***************************************************************************)
(* Properties of the area aggregation (checked under SpecAgg).             *)
(***************************************************************************)
LabelsOf(px) == {px[i].class : i \in 1 .. Len(px)}

RECURSIVE AreaOfLabel(_, _)
AreaOfLabel(px, label) ==
    IF px = <<>> THEN 0
    ELSE (IF Head(px).class = label THEN Head(px).area ELSE 0)
             + AreaOfLabel(Tail(px), label)

KeysOf(list) == {list[i].class : i \in 1 .. Len(list)}

EntryOf(list, label) == list[CHOOSE i \in 1 .. Len(list) : list[i].class = label]

ExamplePixels == <<Pair(1, 500000), Pair(1, 500000), Pair(2, 2000000)>>

\* C3: for each label present in the input, the record holds the sum of
\* the areas of exactly the pairs carrying that label, divided by
\* 1,000,000; [(1,500000),(1,500000),(2,2000000)] gives {1: 1, 2: 2}.
C3_SumPerLabelInSqKm ==
    pc = "done" =>
        /\ \A label \in LabelsOf(areaImage) :
               /\ label \in KeysOf(classAreaList)
               /\ LET v == EntryOf(classAreaList, label).area_sq_km
                  IN  /\ v.den > 0
                      /\ v.num * 1000000 = AreaOfLabel(areaImage, label) * v.den
        /\ areaImage = ExamplePixels =>
               classAreaList = <<[class |-> 1, area_sq_km |-> Num(1)],
                                 [class |-> 2, area_sq_km |-> Num(2)]>>

C3_Witness ==
    /\ pc = "done"
    /\ areaImage = ExamplePixels
    /\ Len(classAreaList) = 2
    /\ classAreaList[1].area_sq_km = Num(1)

\* C4: the keys of the record are exactly the labels that occur in the
\* input, each once; the empty input gives the empty record.
C4_KeysAreLabelsPresent ==
    pc = "done" =>
        /\ KeysOf(classAreaList) = LabelsOf(areaImage)
        /\ Len(classAreaList) = Cardinality(LabelsOf(areaImage))
        /\ areaImage = <<>> => classAreaList = <<>>

\* a label whose only pair has area 0 is present with value 0, and a label
\* without a pair is absent
C4_Witness ==
    /\ pc = "done"
    /\ areaImage = <<Pair(3, 0), Pair(1, 500000)>>
    /\ KeysOf(classAreaList) = {1, 3}
    /\ EntryOf(classAreaList, 3).area_sq_km = Num(0)

C4_WitnessEmpty ==
    /\ pc = "done"
    /\ areaImage = <<>>
    /\ classAreaList = <<>>

\* the record as a mapping
AsMap(list) == [k \in KeysOf(list) |-> EntryOf(list, k).area_sq_km]

aggregateAreas(px) == AsMap(mapClassAreas(reduceRegion(px).groups))

\* the pairs of px that the assignment f sends to shard n, in order
Shard(px, f, n) ==
    LET RECURSIVE Pick(_)
        Pick(i) == IF i > Len(px) THEN <<>>
                   ELSE (IF f[i] = n THEN <<px[i]>> ELSE <<>>) \o Pick(i + 1)
    IN  Pick(1)

\* elementwise sum of two mappings; a missing label contributes nothing
MergeMaps(m1, m2) ==
    [k \in DOMAIN m1 \cup DOMAIN m2 |->
        IF k \in DOMAIN m1 /\ k \in DOMAIN m2 THEN RatAdd(m1[k], m2[k])
        ELSE IF k \in DOMAIN m1 THEN m1[k] ELSE m2[k]]

RECURSIVE MergeShards(_, _, _)
MergeShards(px, f, n) ==
    IF n = 0 THEN <<>>
    ELSE MergeMaps(MergeShards(px, f, n - 1), aggregateAreas(Shard(px, f, n)))

\* the mappings compared by keys and values
SameMap(m1, m2) ==
    /\ DOMAIN m1 = DOMAIN m2
    /\ \A k \in DOMAIN m1 : m1[k] = m2[k]

\* C5: however the input is split into shards (contiguous or interleaved),
\* aggregating the shards one by one and adding the results per label gives
\* the record of the whole input, keys and values.
C5_ShardingInvariance ==
    pc = "done" =>
        \A f \in [1 .. Len(areaImage) -> 1 .. NShards] :
            SameMap(MergeShards(areaImage, f, NShards), AsMap(classAreaList))

\* an interleaved split of three pairs with a label on both shards
C5_Witness ==
    /\ pc = "done"
    /\ areaImage = <<Pair(1, 500000), Pair(2, 2000000), Pair(1, 500000)>>
    /\ AsMap(classAreaList)[1] = Num(1)
    /\ aggregateAreas(Shard(areaImage, <<1, 2, 1>>, 2)) = (2 :> Num(2))

(***************************************************************************)
(* Contract violations (checked under SpecContract).                       *)
(***************************************************************************)
IsValidPair(p) == p.class \in ClassLabels /\ p.area >= 0

PassesMask(i, l) ==
    LET qa == selectQA60(collection[i][l])
    IN  Bit(qa, 10) = 0 /\ Bit(qa, 11) = 0

ClearLocs == {l \in Locs : \E i \in 1 .. Len(collection) : PassesMask(i, l)}

RECURSIVE TotalSqKm(_)
TotalSqKm(list) ==
    IF list = <<>> THEN Num(0)
    ELSE RatAdd(Head(list).area_sq_km, TotalSqKm(Tail(list)))

SqKm(sqMeters) == Rat(sqMeters, 1000000)

\* C6: only locations with an observation that passed the cloud-mask test
\* accrue area; a location whose every observation has bit 10 or bit 11 set
\* is masked in the composite and in the classified image, and a run whose
\* every location is such yields the empty record.
C6_OnlyUnmaskedPixelsAccrueArea ==
    pc # "s2" =>
        LET clear == ClearLocs
        IN  /\ \A l \in Locs \ clear : ~s2[l].mask
            /\ pc # "classified" => \A l \in Locs \ clear : ~classified[l].mask
            /\ pc = "done" =>
                   /\ RatLeq(TotalSqKm(classAreaList),
                             SqKm(pixelArea * Cardinality(clear \cap aoi)))
                   /\ clear \cap aoi = {} => classAreaList = <<>>

\* one location clouded in every image, the other seen clear once
C6_Witness ==
    /\ pc = "done"
    /\ Len(collection) = 2
    /\ ClearLocs \cap aoi = {2}
    /\ ~PassesMask(1, 2) /\ PassesMask(2, 2)
    /\ selectQA60(collection[1][1]) = 1024
    /\ selectQA60(collection[2][1]) = 2048
    /\ TotalSqKm(classAreaList) = SqKm(pixelArea)

C6_WitnessAllExcluded ==
    /\ pc = "done"
    /\ ClearLocs \cap aoi = {}
    /\ classAreaList = <<>>

\* C8: the class areas add up to no more than the area of the AOI.
C8_TotalAreaAtMostAoi ==
    pc = "done" =>
        RatLeq(TotalSqKm(classAreaList), SqKm(pixelArea * Cardinality(aoi)))

\* every AOI location classified, under two labels, the location outside
\* the AOI clear as well: the total is the AOI's area
C8_Witness ==
    /\ pc = "done"
    /\ aoi \subseteq ClearLocs
    /\ Locs \ aoi \subseteq ClearLocs
    /\ Len(classAreaList) = 2
    /\ TotalSqKm(classAreaList) = SqKm(pixelArea * Cardinality(aoi))

(***************************************************************************)
(* Properties of the train/test split (checked under SpecSplit).           *)
(***************************************************************************)
InSeq(x, q) == \E i \in 1 .. Len(q) : q[i] = x

Count(x, q) == Cardinality({i \in 1 .. Len(q) : q[i] = x})

\* C10: every sample lands in exactly one of trainingSet (random < 0.7) and
\* testingSet (random >= 0.7); no sample trains the classifier and is also
\* assessed, and none is dropped.
C10_SplitIsPartition ==
    /\ pc \in {"classifier", "confusionMatrix", "assessed"} =>
           \A i \in 1 .. Len(withRandom) :
               LET x == withRandom[i]
                   r == x.random
               IN  /\ InSeq(x, trainingSet) <=> r.num * 10 < 7 * r.den
                   /\ InSeq(x, testingSet) <=> r.num * 10 >= 7 * r.den
                   /\ Count(x, trainingSet) + Count(x, testingSet) = 1
    /\ pc = "assessed" =>
           /\ classifier.trainedOn \cap confusionMatrix.assessedOn = {}
           /\ classifier.trainedOn \cup confusionMatrix.assessedOn
                  = Ids(trainingData)

\* one sample just below the split, one exactly on it
C10_Witness ==
    /\ pc = "assessed"
    /\ withRandom[1].random = Rat(69, 100)
    /\ withRandom[2].random = Rat(7, 10)
    /\ classifier.trainedOn = {1}
    /\ confusionMatrix.assessedOn = {2}

====
